---- MODULE Spec2Model ----
(***************************************************************************)
(* errcheck: fail-fast error capture (CHECK), rollback capture             *)
(* (GOTO_CHECK + cleanup labels), the idempotent NVRAM gate                *)
(* (errcheck_log_to_nvram) and the runtime fault-injection slot            *)
(* (g_inject_error_flag).                                                  *)
(*                                                                         *)
(* A guarded routine is a sequence of NumSteps guarded calls laid out as   *)
(* device_init (CHECK) or device_init_rollback (GOTO_CHECK).  The value    *)
(* each operation returns and the error kind each check passes are inputs. *)
(***************************************************************************)
EXTENDS Integers, Sequences, FiniteSets, TLC

----------------------------------------------------------------------------
(* Bounds *)

\* number of guarded calls in a routine (3 in device_init and
\* device_init_rollback)
NumSteps == 3

\* error kinds passed to the checks are 0..MaxKind
\* (0 = ERR_SUCCESS/APP_ERR_NONE, 1 = ERR_POWER, 2 = ERR_SENSOR, ...)
MaxKind == 2

\* routine invocations in a behaviour
MaxRuns == 2

\* a direct gate call is made while fewer than MaxGateCalls consecutive gate
\* calls have been made on the same capture
MaxGateCalls == 2

----------------------------------------------------------------------------
(* Program constants *)

ERR_FAILURE == 255
ERR_SUCCESS == 0
APP_ERR_NONE == ERR_SUCCESS

FileNull == "NULL"
FileBasic == "examples/basic_usage.c"
FileRollback == "examples/rollback_cleanup.c"
FileCi == "examples/fault_injection_ci.c"

\* ERR_SENSOR of app_err_t
ERR_SENSOR == 2

\* __LINE__ of CHECK_SENSOR(calibrate_imu()) in init_imu_safe
ImuLine == 41

\* __LINE__ of the i-th CHECK of device_init
CheckLine(i) == 49 + i

\* __LINE__ of the i-th GOTO_CHECK of device_init_rollback
GotoLine(i) == 29 + 3 * i

ErrKinds == 0..MaxKind

\* values an operation (int) may return: failure, success, and a negative
\* nonzero status
OpResults == {-1, 0, 1}

----------------------------------------------------------------------------
(* uint32_t values are kept as two 16-bit halves *)

Half == 65536

\* (uint32_t)x for an int x
ToU32(x) == [hi |-> (x \div Half) % Half, lo |-> x % Half]

\* the uint32_t value u and the int x are the same number
U32Equals(u, x) == x >= 0 /\ u = ToU32(x)

----------------------------------------------------------------------------
VARIABLES
    rti,                  \* ERRCHECK_ENABLE_RUNTIME_INJECTION is defined
    g_error_context,      \* failure_context_t
    g_inject_error_flag,  \* pending injection request, 0 = none
    nvram,                \* records written by the NVRAM write, in order
    pc,                   \* "idle", "run", "cleanup", "exit", "done"
    routine,              \* "none", "check" (device_init), "rollback",
                          \* "imu" (init_imu_safe)
    step,                 \* index of the next guarded call
    label,                \* cleanup label control is at (k = cleanup of step k)
    final_result,         \* local of device_init_rollback
    ret,                  \* <<>> or <<value returned by the routine>>
    trace,                \* guarded calls evaluated in this invocation:
                          \* TRUE = the check passed, FALSE = it failed
    released,             \* release actions run in this invocation, in order
    entry,                \* NVRAM length at invocation, and the context at
                          \* invocation (kept until a check of the
                          \* invocation fails)
    last,                 \* the most recent guarded call of the invocation
    shot,                 \* kind that fired by injection since the last request
    gate,                 \* consecutive gate calls since the last capture,
                          \* until the caller moves on
    runs,                 \* routine invocations so far
    history,              \* since initialization: captured = "none", "kinds"
                          \* (only kinds other than ERR_SUCCESS were
                          \* captured) or "success" (a capture had kind
                          \* ERR_SUCCESS); first = <<>> or <<the first
                          \* context with a failure code that reached the
                          \* gate>>
    program               \* the example program: "check" (basic_usage.c,
                          \* main calls device_init), "rollback"
                          \* (rollback_cleanup.c, main calls
                          \* device_init_rollback), "imu_inject"
                          \* (fault_injection_ci.c built with
                          \* INJECT_ERR_SENSOR, main calls init_imu_safe)
                          \* or "imu" (the same file built without it)

vars == <<program, history, runs, rti, g_error_context, g_inject_error_flag, nvram, pc,
          routine, step,
          label, final_result, ret, trace, released, entry, last, shot, gate>>

InitContext ==
    [code |-> ERR_SUCCESS, inner_code |-> ToU32(0), file |-> FileNull,
     line |-> 0, logged_to_nvram |-> FALSE]

NoCall ==
    [op |-> "none", kind |-> 0, result |-> 0, hit |-> FALSE, pend |-> 0,
     after |-> 0, shot |-> 0, real |-> 0]

NoGate == [calls |-> 0, writes |-> 0, ctx |-> InitContext, nv |-> <<>>]

Init ==
    /\ rti \in BOOLEAN
    /\ g_error_context = InitContext
    /\ g_inject_error_flag = 0
    /\ nvram = <<>>
    /\ pc = "idle"
    /\ routine = "none"
    /\ step = 0
    /\ label = 0
    /\ final_result = ERR_FAILURE
    /\ ret = <<>>
    /\ trace = <<>>
    /\ released = <<>>
    /\ entry = [ctx |-> <<>>, writes |-> 0]
    /\ last = NoCall
    /\ shot = 0
    /\ gate = NoGate
    /\ runs = 0
    /\ history = [captured |-> "none", first |-> <<>>]
    /\ program \in {"check", "rollback", "imu", "imu_inject"}

----------------------------------------------------------------------------
(* errcheck_log_to_nvram *)

NvramRecord(ctx) ==
    [code |-> ctx.code, inner_code |-> ctx.inner_code, file |-> ctx.file,
     line |-> ctx.line]

\* faulty variant: the gate forgets to set logged_to_nvram
errcheck_log_to_nvram_noflag(ctx, nv) ==
    IF ctx.logged_to_nvram THEN [ctx |-> ctx, nv |-> nv]
    ELSE IF ctx.code = ERR_SUCCESS THEN [ctx |-> ctx, nv |-> nv]
    ELSE [ctx |-> ctx, nv |-> Append(nv, NvramRecord(ctx))]

\* faulty variant: the gate does not test for ERR_SUCCESS
errcheck_log_to_nvram_anycode(ctx, nv) ==
    IF ctx.logged_to_nvram THEN [ctx |-> ctx, nv |-> nv]
    ELSE [ctx |-> [ctx EXCEPT !.logged_to_nvram = TRUE],
          nv |-> Append(nv, NvramRecord(ctx))]

errcheck_log_to_nvram(ctx, nv) ==
    IF ctx.logged_to_nvram THEN [ctx |-> ctx, nv |-> nv]
    ELSE IF ctx.code = ERR_SUCCESS THEN [ctx |-> ctx, nv |-> nv]
    ELSE [ctx |-> [ctx EXCEPT !.logged_to_nvram = TRUE],
          nv |-> Append(nv, NvramRecord(ctx))]

\* bookkeeping of consecutive gate calls: fresh = the context was just
\* assigned by a capture
GateTrack(g, before, after, fresh) ==
    LET delta == Len(after.nv) - Len(before.nv) IN
    IF fresh \/ g.calls = 0
    THEN [calls |-> 1, writes |-> delta, ctx |-> after.ctx, nv |-> after.nv]
    ELSE [g EXCEPT !.calls = g.calls + 1, !.writes = g.writes + delta]

\* bookkeeping: a guarded call with kind err_flag captured a failure;
\* captured tells whether the latest capture's kind was ERR_SUCCESS
CapturedAfter(h, err_flag) ==
    [h EXCEPT !.captured = IF err_flag = ERR_SUCCESS
                           THEN "success" ELSE "kinds"]

\* bookkeeping: the gate was called on context ctx
GateReached(h, ctx) ==
    IF h.first = <<>> /\ ctx.code # ERR_SUCCESS
    THEN [h EXCEPT !.first = <<NvramRecord(ctx)>>] ELSE h

----------------------------------------------------------------------------
(* The macros of errcheck.h *)

\* faulty variant: the capture leaves the line of an earlier failure in place
RETURN_ERR_AND_CONTEXT_noline(ctx, nv, err_flag, inner_val, site) ==
    errcheck_log_to_nvram(
        [ctx EXCEPT !.code = err_flag, !.inner_code = inner_val,
                    !.file = site.file],
        nv)

\* sets the context, calls the gate; the caller then returns ERR_FAILURE
RETURN_ERR_AND_CONTEXT(ctx, nv, err_flag, inner_val, site) ==
    errcheck_log_to_nvram(
        [ctx EXCEPT !.code = err_flag, !.inner_code = inner_val,
                    !.file = site.file, !.line = site.line],
        nv)

\* faulty variant: the capture does not assign the code
GotoCapture_nocode(ctx, err_flag, inner_val, site) ==
    [ctx EXCEPT !.inner_code = inner_val,
                !.file = site.file, !.line = site.line]

\* faulty variant: the capture re-arms the gate by clearing logged_to_nvram
GotoCapture_clearflag(ctx, err_flag, inner_val, site) ==
    [ctx EXCEPT !.code = err_flag, !.inner_code = inner_val,
                !.file = site.file, !.line = site.line,
                !.logged_to_nvram = FALSE]

\* the assignments of a failing GOTO_CHECK (no gate call)
GotoCapture(ctx, err_flag, inner_val, site) ==
    [ctx EXCEPT !.code = err_flag, !.inner_code = inner_val,
                !.file = site.file, !.line = site.line]

\* faulty variant: a negative return value counts as a failure too
CheckFails_neg(result) == result <= 0

\* if (__result == 0)
CheckFails(result) == result = 0

\* faulty variant: the injection slot is not consulted
CheckFailsRTI_noinject(result, flag, err_flag) == result = 0

\* faulty variant: the injection build takes a negative result for a failure
CheckFailsRTI_neg(result, flag, err_flag) == result <= 0 \/ flag = err_flag

\* if (__result == 0 || g_inject_error_flag == (err_flag))
CheckFailsRTI(result, flag, err_flag) == result = 0 \/ flag = err_flag

\* faulty variant: a fired request stays pending
FlagAfterHit_keep(flag) == flag

\* g_inject_error_flag = 0
FlagAfterHit(flag) == 0

\* faulty variant: the injection build stores 0 like the plain build
InnerRTI_zero(result) == ToU32(0)

\* (uint32_t)__result
InnerRTI(result) == ToU32(result)

\* faulty variant: every failure jumps to the topmost cleanup label
GotoTarget_top(k) == NumSteps

\* faulty variant: a failure jumps to the label below its own
GotoTarget_below(k) == k - 1

\* goto label: step k's GOTO_CHECK names cleanup label k
GotoTarget(k) == k

\* faulty variant: the fall-through skips a label
NextLabel_skip(k) == IF k >= 2 THEN k - 2 ELSE 0

\* faulty variant: a cleanup label falls through to itself
NextLabel_stuck(k) == k

\* cleanup label k falls through to cleanup label k-1
NextLabel(k) == k - 1

\* faulty variant: the success path leaves final_result at its default
SuccessResult_default == ERR_FAILURE

\* final_result = APP_ERR_NONE
SuccessResult == APP_ERR_NONE

CheckSite(i) == [file |-> FileBasic, line |-> CheckLine(i)]
ImuSite == [file |-> FileCi, line |-> ImuLine]
GotoSite(i) == [file |-> FileRollback, line |-> GotoLine(i)]

CallRecord(op, err_flag, result, hit, flagAfter) ==
    [op |-> op, kind |-> err_flag, result |-> result, hit |-> hit,
     pend |-> g_inject_error_flag, after |-> flagAfter, shot |-> shot,
     real |-> result]

\* the request fired: it was pending and equal to the check's kind
ShotAfter(err_flag) ==
    IF g_inject_error_flag # 0 /\ g_inject_error_flag = err_flag
    THEN err_flag ELSE shot

----------------------------------------------------------------------------
(* Callers *)

\* the routine the program's main calls
RoutineOf(p) == IF p \in {"imu", "imu_inject"} THEN "imu" ELSE p

\* main calls device_init(), device_init_rollback() or init_imu_safe()
Invoke(rt) ==
    /\ pc = "idle"
    /\ rt = RoutineOf(program)
    /\ runs < MaxRuns
    /\ runs' = runs + 1
    /\ pc' = "run"
    /\ routine' = rt
    /\ step' = 1
    /\ label' = 0
    /\ final_result' = ERR_FAILURE
    /\ ret' = <<>>
    /\ trace' = <<>>
    /\ released' = <<>>
    /\ entry' = [ctx |-> <<g_error_context>>, writes |-> Len(nvram)]
    /\ UNCHANGED <<rti, history, program, g_error_context, g_inject_error_flag, nvram,
                   last, shot, gate>>

\* the caller receives the result
Return ==
    /\ pc = "done"
    /\ pc' = "idle"
    /\ routine' = "none"
    /\ step' = 0
    /\ label' = 0
    /\ final_result' = ERR_FAILURE
    /\ ret' = <<>>
    /\ trace' = <<>>
    /\ released' = <<>>
    /\ entry' = [ctx |-> <<>>, writes |-> 0]
    /\ last' = NoCall
    /\ gate' = NoGate
    /\ UNCHANGED <<rti, history, runs, program, g_error_context, g_inject_error_flag, nvram,
                   shot>>

\* the caller calls errcheck_log_to_nvram() itself after the routine returned
LogCall ==
    /\ pc = "done"
    /\ gate.calls < MaxGateCalls
    /\ LET before == [ctx |-> g_error_context, nv |-> nvram]
           after == errcheck_log_to_nvram(g_error_context, nvram)
       IN /\ g_error_context' = after.ctx
          /\ nvram' = after.nv
          /\ gate' = GateTrack(gate, before, after, FALSE)
    /\ history' = GateReached(history, g_error_context)
    /\ UNCHANGED <<rti, runs, program, g_inject_error_flag, pc, routine, step, label,
                   final_result, ret, trace, released, entry, last, shot>>

\* the controller (debugger, test harness) writes a request into the slot
\* before a routine is called
SetInject(x) ==
    /\ rti
    /\ pc = "idle"
    /\ x # 0
    /\ g_inject_error_flag' = x
    /\ shot' = 0
    /\ UNCHANGED <<rti, history, runs, program, g_error_context, nvram, pc, routine, step, label,
                   final_result, ret, trace, released, entry, last, gate>>

----------------------------------------------------------------------------
(* Guarded calls *)

\* the expansion of CHECK(call, err_flag) at a call site, plain build; call
\* is the value of the macro's first argument, real the value the guarded
\* operation returns
CheckMacro(call, err_flag, site, real) ==
    /\ ~rti
    /\ pc = "run"
    /\ LET hit == CheckFails(call)
           before == [ctx |-> g_error_context, nv |-> nvram]
           after == RETURN_ERR_AND_CONTEXT(g_error_context, nvram, err_flag,
                                           ToU32(0), site)
       IN /\ trace' = Append(trace, ~hit)
          /\ last' = [CallRecord("CHECK", err_flag, call, hit,
                                 g_inject_error_flag) EXCEPT !.real = real]
          /\ IF hit
             THEN /\ g_error_context' = after.ctx
                  /\ nvram' = after.nv
                  /\ gate' = GateTrack(gate, before, after, TRUE)
                  /\ ret' = <<ERR_FAILURE>>
                  /\ pc' = "done"
                  /\ entry' = [entry EXCEPT !.ctx = <<>>]
                  /\ UNCHANGED step
             ELSE /\ step' = step + 1
                  /\ UNCHANGED <<g_error_context, nvram, gate, ret, pc,
                                 entry>>
    /\ history' = IF CheckFails(call)
                  THEN GateReached(CapturedAfter(history, err_flag),
                                   [code |-> err_flag, inner_code |-> ToU32(0),
                                    file |-> site.file, line |-> site.line])
                  ELSE history
    /\ UNCHANGED <<rti, runs, program, g_inject_error_flag, routine, label, final_result,
                   released, shot>>

\* CHECK(call, err_flag) in device_init, plain build; call is the value the
\* operation returned
CHECK(call, err_flag) ==
    /\ routine = "check" /\ step <= NumSteps
    /\ CheckMacro(call, err_flag, CheckSite(step), call)

\* the expansion of CHECK(call, err_flag) at a call site, build with
\* ERRCHECK_ENABLE_RUNTIME_INJECTION
CheckMacroRTI(call, err_flag, site, real) ==
    /\ rti
    /\ pc = "run"
    /\ LET hit == CheckFailsRTI(call, g_inject_error_flag, err_flag)
           flagAfter == IF hit THEN FlagAfterHit(g_inject_error_flag)
                        ELSE g_inject_error_flag
           before == [ctx |-> g_error_context, nv |-> nvram]
           after == RETURN_ERR_AND_CONTEXT(g_error_context, nvram, err_flag,
                                           InnerRTI(call), site)
       IN /\ trace' = Append(trace, ~hit)
          /\ last' = [CallRecord("CHECK", err_flag, call, hit, flagAfter)
                         EXCEPT !.real = real]
          /\ g_inject_error_flag' = flagAfter
          /\ shot' = ShotAfter(err_flag)
          /\ IF hit
             THEN /\ g_error_context' = after.ctx
                  /\ nvram' = after.nv
                  /\ gate' = GateTrack(gate, before, after, TRUE)
                  /\ ret' = <<ERR_FAILURE>>
                  /\ pc' = "done"
                  /\ entry' = [entry EXCEPT !.ctx = <<>>]
                  /\ UNCHANGED step
             ELSE /\ step' = step + 1
                  /\ UNCHANGED <<g_error_context, nvram, gate, ret, pc,
                                 entry>>
    /\ history' = IF CheckFailsRTI(call, g_inject_error_flag, err_flag)
                  THEN GateReached(CapturedAfter(history, err_flag),
                                   [code |-> err_flag,
                                    inner_code |-> ToU32(call),
                                    file |-> site.file, line |-> site.line])
                  ELSE history
    /\ UNCHANGED <<rti, runs, program, routine, label, final_result, released>>

\* CHECK(call, err_flag) in device_init, build with
\* ERRCHECK_ENABLE_RUNTIME_INJECTION
CHECK_RTI(call, err_flag) ==
    /\ routine = "check" /\ step <= NumSteps
    /\ CheckMacroRTI(call, err_flag, CheckSite(step), call)

\* faulty variant: the forced build still evaluates the real call
CtiCall_real(real) == real

\* #ifdef INJECT_ERR_SENSOR: CHECK_SENSOR(call) is CHECK(0, ERR_SENSOR)
CtiCall(real) == 0

\* CHECK_SENSOR(calibrate_imu()) in init_imu_safe; real is the value
\* calibrate_imu() returns (would return, in the forced build)
CHECK_SENSOR(real) ==
    /\ routine = "imu" /\ step = 1
    /\ LET call == IF program = "imu_inject" THEN CtiCall(real) ELSE real
       IN \/ CheckMacro(call, ERR_SENSOR, ImuSite, real)
          \/ CheckMacroRTI(call, ERR_SENSOR, ImuSite, real)

\* return APP_ERR_NONE at the end of init_imu_safe
ImuReturn ==
    /\ pc = "run" /\ routine = "imu" /\ step = 2
    /\ ret' = <<APP_ERR_NONE>>
    /\ pc' = "done"
    /\ UNCHANGED <<rti, history, runs, program, g_error_context, g_inject_error_flag,
                   nvram, routine, step, label, final_result, trace, released,
                   entry, last, shot, gate>>

\* return ERR_SUCCESS at the end of device_init
ReturnSuccess ==
    /\ pc = "run" /\ routine = "check" /\ step = NumSteps + 1
    /\ ret' = <<ERR_SUCCESS>>
    /\ pc' = "done"
    /\ UNCHANGED <<rti, history, runs, program, g_error_context, g_inject_error_flag, nvram, routine,
                   step, label, final_result, trace, released, entry, last,
                   shot, gate>>

\* GOTO_CHECK(call, err_flag, label), plain build
GOTO_CHECK(call, err_flag) ==
    /\ ~rti
    /\ pc = "run" /\ routine = "rollback" /\ step <= NumSteps
    /\ LET hit == CheckFails(call)
       IN /\ trace' = Append(trace, ~hit)
          /\ last' = CallRecord("GOTO_CHECK", err_flag, call, hit,
                                g_inject_error_flag)
          /\ IF hit
             THEN /\ g_error_context' = GotoCapture(g_error_context, err_flag,
                                                    ToU32(0), GotoSite(step))
                  /\ gate' = NoGate
                  /\ label' = GotoTarget(step)
                  /\ pc' = "cleanup"
                  /\ entry' = [entry EXCEPT !.ctx = <<>>]
                  /\ UNCHANGED step
             ELSE /\ step' = step + 1
                  /\ UNCHANGED <<g_error_context, gate, label, pc, entry>>
    /\ history' = IF CheckFails(call)
                  THEN CapturedAfter(history, err_flag) ELSE history
    /\ UNCHANGED <<rti, runs, program, g_inject_error_flag, nvram, routine, final_result,
                   ret, released, shot>>

\* GOTO_CHECK(call, err_flag, label), build with
\* ERRCHECK_ENABLE_RUNTIME_INJECTION
GOTO_CHECK_RTI(call, err_flag) ==
    /\ rti
    /\ pc = "run" /\ routine = "rollback" /\ step <= NumSteps
    /\ LET hit == CheckFailsRTI(call, g_inject_error_flag, err_flag)
           flagAfter == IF hit THEN FlagAfterHit(g_inject_error_flag)
                        ELSE g_inject_error_flag
       IN /\ trace' = Append(trace, ~hit)
          /\ last' = CallRecord("GOTO_CHECK", err_flag, call, hit, flagAfter)
          /\ g_inject_error_flag' = flagAfter
          /\ shot' = ShotAfter(err_flag)
          /\ IF hit
             THEN /\ g_error_context' = GotoCapture(g_error_context, err_flag,
                                                    InnerRTI(call),
                                                    GotoSite(step))
                  /\ gate' = NoGate
                  /\ label' = GotoTarget(step)
                  /\ pc' = "cleanup"
                  /\ entry' = [entry EXCEPT !.ctx = <<>>]
                  /\ UNCHANGED step
             ELSE /\ step' = step + 1
                  /\ UNCHANGED <<g_error_context, gate, label, pc, entry>>
    /\ history' = IF CheckFailsRTI(call, g_inject_error_flag, err_flag)
                  THEN CapturedAfter(history, err_flag) ELSE history
    /\ UNCHANGED <<rti, runs, program, nvram, routine, final_result, ret, released>>

\* final_result = APP_ERR_NONE; goto exit;
SuccessPath ==
    /\ pc = "run" /\ routine = "rollback" /\ step = NumSteps + 1
    /\ final_result' = SuccessResult
    /\ pc' = "exit"
    /\ UNCHANGED <<rti, history, runs, program, g_error_context, g_inject_error_flag, nvram, routine,
                   step, label, ret, trace, released, entry, last, shot, gate>>

\* cleanup_<k>: the release action of step k, then fall through
Cleanup ==
    /\ pc = "cleanup" /\ label >= 1
    /\ released' = Append(released, label)
    /\ label' = NextLabel(label)
    /\ pc' = IF NextLabel(label) >= 1 THEN "cleanup" ELSE "exit"
    /\ UNCHANGED <<rti, history, runs, program, g_error_context, g_inject_error_flag, nvram, routine,
                   step, final_result, ret, trace, entry, last, shot, gate>>

\* exit: if (final_result == ERR_FAILURE) errcheck_log_to_nvram();
\*       return final_result;
Exit ==
    /\ pc = "exit"
    /\ LET before == [ctx |-> g_error_context, nv |-> nvram]
           after == errcheck_log_to_nvram(g_error_context, nvram)
       IN IF final_result = ERR_FAILURE
          THEN /\ g_error_context' = after.ctx
               /\ nvram' = after.nv
               /\ gate' = GateTrack(gate, before, after, FALSE)
          ELSE UNCHANGED <<g_error_context, nvram, gate>>
    /\ ret' = <<final_result>>
    /\ pc' = "done"
    /\ history' = IF final_result = ERR_FAILURE
                  THEN GateReached(history, g_error_context) ELSE history
    /\ UNCHANGED <<rti, runs, program, g_inject_error_flag, routine, step, label,
                   final_result, trace, released, entry, last, shot>>

----------------------------------------------------------------------------
Next ==
    \/ \E rt \in {"check", "rollback", "imu"} : Invoke(rt)
    \/ Return
    \/ LogCall
    \/ \E x \in ErrKinds : SetInject(x)
    \/ \E call \in OpResults, err_flag \in ErrKinds : CHECK(call, err_flag)
    \/ \E call \in OpResults, err_flag \in ErrKinds : CHECK_RTI(call, err_flag)
    \/ ReturnSuccess
    \/ \E real \in OpResults : CHECK_SENSOR(real)
    \/ ImuReturn
    \/ \E call \in OpResults, err_flag \in ErrKinds :
          GOTO_CHECK(call, err_flag)
    \/ \E call \in OpResults, err_flag \in ErrKinds :
          GOTO_CHECK_RTI(call, err_flag)
    \/ SuccessPath
    \/ Cleanup
    \/ Exit

Spec == Init /\ [][Next]_vars

----------------------------------------------------------------------------
(* The rollback program alone, with the progress of a called routine *)

\* rollback_cleanup.c is the program that was built
RollbackInit == Init /\ program = "rollback"

\* a step of device_init_rollback between its call and its return statement
RollbackStep ==
    \/ \E call \in OpResults, err_flag \in ErrKinds :
          GOTO_CHECK(call, err_flag)
    \/ \E call \in OpResults, err_flag \in ErrKinds :
          GOTO_CHECK_RTI(call, err_flag)
    \/ SuccessPath
    \/ Cleanup
    \/ Exit

\* main of rollback_cleanup.c calls device_init_rollback() once
MainCalls == 1

\* main of rollback_cleanup.c does not call the gate itself
RollbackNext ==
    \/ runs < MainCalls /\ Invoke("rollback")
    \/ Return
    \/ \E x \in ErrKinds : SetInject(x)
    \/ RollbackStep

\* a routine that was called keeps executing its statements (the guarded
\* operations return); the caller may stop calling at any time
FairSpec == RollbackInit /\ [][RollbackNext]_vars /\ WF_vars(RollbackStep)

----------------------------------------------------------------------------
(* Both builds with no controller: nothing ever writes a request *)

QuietNext ==
    \/ \E rt \in {"check", "rollback", "imu"} : Invoke(rt)
    \/ Return
    \/ LogCall
    \/ \E call \in OpResults, err_flag \in ErrKinds : CHECK(call, err_flag)
    \/ \E call \in OpResults, err_flag \in ErrKinds : CHECK_RTI(call, err_flag)
    \/ ReturnSuccess
    \/ \E real \in OpResults : CHECK_SENSOR(real)
    \/ ImuReturn
    \/ \E call \in OpResults, err_flag \in ErrKinds :
          GOTO_CHECK(call, err_flag)
    \/ \E call \in OpResults, err_flag \in ErrKinds :
          GOTO_CHECK_RTI(call, err_flag)
    \/ SuccessPath
    \/ Cleanup
    \/ Exit

QuietSpec == Init /\ [][QuietNext]_vars

TypeOK ==
    /\ rti \in BOOLEAN
    /\ g_error_context.code \in ErrKinds
    /\ g_inject_error_flag \in ErrKinds
    /\ runs \in 0..MaxRuns
    /\ gate.calls \in 0..(MaxGateCalls + 1)
    /\ pc \in {"idle", "run", "cleanup", "exit", "done"}
    /\ step \in 0..(NumSteps + 1)
    /\ label \in 0..NumSteps

----------------------------------------------------------------------------
(* Helpers of the properties *)

\* <<k, k-1, ..., 1>>
Desc(k) == [i \in 1..k |-> k + 1 - i]

IsPrefix(a, b) == Len(a) <= Len(b) /\ \A i \in 1..Len(a) : a[i] = b[i]

\* a guarded call of the current invocation has failed
Failed == last.op # "none" /\ last.hit

\* every guarded call evaluated so far in the invocation passed
AllPassed == \A i \in 1..Len(trace) : trace[i]

\* the operation of step j ran in this invocation and returned nonzero
AcquiredOk(j) ==
    /\ j \in 1..Len(trace)
    /\ IF j < Len(trace) THEN trace[j] ELSE last.result # 0

LastWrite == nvram[Len(nvram)]

----------------------------------------------------------------------------
(* C1..C10 *)

\* C1: in a routine of CHECK calls, when the first K operations succeed and
\* operation K+1 returns 0, the routine has returned ERR_FAILURE at once,
\* code is check K+1's error kind, file and line are check K+1's call site,
\* and no later check was evaluated.
C1_FirstFailureCaptured ==
    (routine = "check" /\ last.op = "CHECK" /\ last.result = 0) =>
        /\ pc = "done"
        /\ ret = <<ERR_FAILURE>>
        /\ Len(trace) = step
        /\ \A i \in 1..(step - 1) : trace[i]
        /\ ~trace[step]
        /\ g_error_context.code = last.kind
        /\ g_error_context.inner_code = ToU32(0)
        /\ g_error_context.file = FileBasic
        /\ g_error_context.line = CheckLine(step)

\* two checks pass, the third one's operation returns 0, in a second invocation
C1_Witness ==
    /\ routine = "check" /\ pc = "done" /\ last.result = 0
    /\ step = NumSteps /\ runs >= 2
    /\ g_error_context.line = CheckLine(NumSteps)

\* C2 (as claimed): every failing CHECK, and every failing GOTO_CHECK whose
\* routine reached its exit, has produced exactly one NVRAM write in its
\* invocation, carrying that failure's code and location -- also for a second
\* failure after an earlier one was logged.
C2_ExactlyOncePerFailure ==
    (pc = "done" /\ Failed /\ last.kind # ERR_SUCCESS) =>
        /\ Len(nvram) = entry.writes + 1
        /\ LastWrite = NvramRecord(g_error_context)

\* C3: two gate calls with no capture in between leave the context and the
\* NVRAM contents as the first call left them, and write at most once.
C3_GateIdempotent ==
    gate.calls >= 2 =>
        /\ g_error_context = gate.ctx
        /\ nvram = gate.nv
        /\ gate.writes <= 1

\* the first of two consecutive gate calls wrote
C3_Witness == gate.calls = 2 /\ gate.writes = 1 /\ Len(nvram) = 1

\* C4: when steps 1..k-1 of a rollback routine pass and step k fails, the
\* releases run are those of k, k-1, ..., 1, once each in that order, and no
\* step after k is acquired or released.
C4_ReleaseOrder ==
    routine = "rollback" =>
        /\ released # <<>> => Failed
        /\ Failed =>
              /\ Len(trace) = step
              /\ \A i \in 1..(step - 1) : trace[i]
              /\ IsPrefix(released, Desc(step))
              /\ pc \in {"exit", "done"} => released = Desc(step)

\* step 2 failed and the routine returned after releasing 2 then 1
C4_Witness ==
    /\ routine = "rollback" /\ pc = "done" /\ Failed
    /\ step = 2 /\ released = <<2, 1>>

\* C5 (as claimed): a release runs only if that step's operation ran and
\* succeeded earlier in the same invocation, and releases are in reverse
\* order of acquisition.
C5_OnlyAcquiredReleased ==
    routine = "rollback" =>
        /\ \A i \in 1..Len(released) : AcquiredOk(released[i])
        /\ \A i \in 1..(Len(released) - 1) : released[i] > released[i + 1]

\* C5 (amended): a release runs only if that step's operation ran earlier in
\* the same invocation; every released step other than the one whose check
\* failed had a successful acquisition; releases are in descending step order.
C5_OnlyEvaluatedReleased ==
    routine = "rollback" =>
        /\ \A i \in 1..Len(released) :
              /\ released[i] \in 1..Len(trace)
              /\ released[i] < Len(trace) => AcquiredOk(released[i])
        /\ \A i \in 1..(Len(released) - 1) : released[i] > released[i + 1]

\* the operation of step 3 returned 0 and its release has just run
C5_Witness ==
    /\ routine = "rollback" /\ pc = "cleanup" /\ last.result = 0
    /\ released = <<NumSteps>> /\ Len(trace) = NumSteps

\* C6 (as claimed): when the GOTO_CHECK of step k fails, the routine returns
\* ERR_FAILURE with exactly one NVRAM write made during the invocation,
\* carrying step k's error kind and call site, whatever the context was at
\* invocation.
C6_RollbackLoggedOnce ==
    (routine = "rollback" /\ pc = "done" /\ Failed
        /\ last.kind # ERR_SUCCESS) =>
        /\ ret = <<ERR_FAILURE>>
        /\ Len(nvram) = entry.writes + 1
        /\ LastWrite.code = last.kind
        /\ LastWrite.file = FileRollback
        /\ LastWrite.line = GotoLine(step)

\* C7: a rollback routine whose GOTO_CHECKs all pass runs no release, writes
\* nothing to NVRAM, leaves g_error_context as it was and returns ERR_SUCCESS.
C7_AllSuccess ==
    (routine = "rollback" /\ pc = "done" /\ AllPassed) =>
        /\ Len(trace) = NumSteps
        /\ released = <<>>
        /\ Len(nvram) = entry.writes
        /\ entry.ctx = <<g_error_context>>
        /\ ret = <<ERR_SUCCESS>>

\* all steps passed while the context holds an earlier, logged failure
C7_Witness ==
    /\ routine = "rollback" /\ pc = "done" /\ AllPassed
    /\ g_error_context.code # ERR_SUCCESS
    /\ g_error_context.logged_to_nvram

\* C8: after a pending request matched a check and fired, a later check of
\* the same kind, with no new request set, fails only if its operation
\* returned 0.
C8_SingleShot ==
    (last.op # "none" /\ last.shot # 0 /\ last.kind = last.shot /\ last.hit)
        => last.result = 0

\* a check of the kind that fired earlier passes on a nonzero result
C8_Witness ==
    /\ last.op # "none" /\ last.shot # 0 /\ last.kind = last.shot
    /\ last.result # 0 /\ ~last.hit

\* C9 (as claimed): a guarded call whose kind differs from the pending
\* request leaves the request pending, whether its operation succeeds or
\* fails; only a call of the pending kind clears it.
C9_ConsumedOnlyByMatch ==
    (last.op # "none" /\ last.pend # 0 /\ last.kind # last.pend)
        => last.after = last.pend

\* C10 (as claimed, for checks of a kind other than ERR_SUCCESS): with
\* injection enabled a check fails iff its operation returned 0 or the pending
\* request equals its kind; when injection is the trigger (result r # 0),
\* inner_code equals r, code equals the kind and the request is none
\* afterwards.
C10_InjectedFailure ==
    (rti /\ last.op # "none" /\ last.kind # ERR_SUCCESS) =>
        /\ last.hit <=> (last.result = 0 \/ last.pend = last.kind)
        /\ (last.hit /\ last.result # 0) =>
              /\ U32Equals(g_error_context.inner_code, last.result)
              /\ g_error_context.code = last.kind
              /\ last.after = 0

\* C10 (amended): as C10, with inner_code equal to r converted to uint32_t
\* (r modulo 2^32, which is r itself when r >= 0).
C10_InjectedFailureU32 ==
    (rti /\ last.op # "none") =>
        /\ last.hit <=> (last.result = 0 \/ last.pend = last.kind)
        /\ (last.hit /\ last.result # 0) =>
              /\ g_error_context.inner_code = ToU32(last.result)
              /\ g_error_context.code = last.kind
              /\ last.after = 0

\* a matching request fires on an operation that returned -1
C10_Witness ==
    /\ rti /\ last.op # "none" /\ last.hit
    /\ last.result = -1 /\ last.pend = last.kind /\ last.pend # 0
    /\ g_error_context.inner_code = [hi |-> 65535, lo |-> 65535]

----------------------------------------------------------------------------
(* C11..C20 *)

\* C11: a check site built with forced failure (INJECT_ERR_SENSOR) fails
\* whatever the real operation would return: the routine has returned
\* ERR_FAILURE, code is ERR_SENSOR and the failure went through the gate.
C11_BuildTimeInjection ==
    (program = "imu_inject" /\ routine = "imu" /\ last.op # "none") =>
        /\ last.hit
        /\ pc = "done"
        /\ ret = <<ERR_FAILURE>>
        /\ g_error_context.code = ERR_SENSOR
        /\ g_error_context.file = FileCi
        /\ g_error_context.line = ImuLine
        /\ gate.calls >= 1
        /\ g_error_context.logged_to_nvram

\* the forced check failed although calibrate_imu() would have returned 1
C11_Witness ==
    /\ program = "imu_inject" /\ routine = "imu" /\ pc = "done"
    /\ last.real = 1 /\ ret = <<ERR_FAILURE>>
    /\ nvram # <<>> /\ LastWrite.code = ERR_SENSOR

\* C12: the durable write is never performed for a success state: every
\* record in the store has a code other than ERR_SUCCESS, logged_to_nvram is
\* set only together with a write, a step writes (or sets the flag) only for
\* a context whose code is not ERR_SUCCESS, and a step that ends with code
\* ERR_SUCCESS (a gate call on such a context included) leaves the store
\* and the flag as they were.
C12_NoWriteForSuccess ==
    [][/\ \A i \in 1..Len(nvram) : nvram[i].code # ERR_SUCCESS
       /\ g_error_context.logged_to_nvram => nvram # <<>>
       /\ (nvram' # nvram \/ (g_error_context'.logged_to_nvram
                                /\ ~g_error_context.logged_to_nvram)) =>
              /\ g_error_context'.code # ERR_SUCCESS
              /\ g_error_context'.logged_to_nvram
              /\ nvram' = Append(nvram, NvramRecord(g_error_context'))
       /\ g_error_context'.code = ERR_SUCCESS =>
              /\ nvram' = nvram
              /\ g_error_context'.logged_to_nvram
                     = g_error_context.logged_to_nvram
       /\ (g_error_context.code = ERR_SUCCESS /\ gate'.calls = gate.calls + 1
             /\ trace' = trace) =>
              /\ g_error_context' = g_error_context
              /\ nvram' = nvram
      ]_vars

\* the caller called the gate after a routine that succeeded: nothing was
\* written
C12_Witness ==
    /\ pc = "done" /\ ~Failed /\ last.op # "none"
    /\ gate.calls >= 1 /\ gate.writes = 0
    /\ g_error_context.code = ERR_SUCCESS
    /\ ~g_error_context.logged_to_nvram /\ nvram = <<>>

\* C13 as stated: code is ERR_SUCCESS if and only if no guarded check has
\* captured a failure since the context was initialized, whatever err_t
\* values are passed as error kinds.
C13_SuccessIffNoCapture ==
    (g_error_context.code = ERR_SUCCESS) <=> (history.captured = "none")

\* C13: code is ERR_SUCCESS if and only if no guarded check has captured a
\* failure since the context was initialized or the latest capture was made
\* by a check whose error kind is ERR_SUCCESS itself; for kinds other than
\* ERR_SUCCESS, code differs from ERR_SUCCESS after a capture.
C13_SuccessIffNoCaptureOfKind ==
    /\ (g_error_context.code = ERR_SUCCESS)
           <=> (history.captured \in {"none", "success"})
    /\ (Failed /\ last.kind # ERR_SUCCESS) =>
           g_error_context.code # ERR_SUCCESS

\* a failing GOTO_CHECK with a kind other than ERR_SUCCESS has captured
C13_Witness ==
    /\ routine = "rollback" /\ pc = "cleanup" /\ Failed
    /\ last.kind # ERR_SUCCESS
    /\ g_error_context.code = last.kind
    /\ history.captured = "kinds"

\* C14: logged_to_nvram is monotonic: no step (guarded check, cleanup step,
\* gate call, call or return of a routine) takes it from true back to false.
C14_LoggedMonotonic ==
    [][g_error_context.logged_to_nvram => g_error_context'.logged_to_nvram]_vars

\* the flag was set by an earlier invocation and a later failing GOTO_CHECK
\* has overwritten the context: the flag is still set
C14_Witness ==
    /\ g_error_context.logged_to_nvram /\ runs >= 2
    /\ routine = "rollback" /\ pc = "cleanup" /\ Failed
    /\ nvram # <<>> /\ NvramRecord(g_error_context) # LastWrite

\* C15: a guarded check whose outcome indicates success changes no state:
\* when the operation returns nonzero (and, in the injection build, the
\* pending request differs from the check's kind), CHECK and GOTO_CHECK leave
\* every field of g_error_context and the injection slot as they were, write
\* nothing, do not return or jump, and control goes on to the next statement.
C15_PassingCheckFrame ==
    [][(/\ Len(trace') = Len(trace) + 1
        /\ last'.result # 0
        /\ rti => last'.pend # last'.kind) =>
           /\ trace'[Len(trace')]
           /\ g_error_context' = g_error_context
           /\ g_inject_error_flag' = g_inject_error_flag
           /\ nvram' = nvram
           /\ pc = "run" /\ pc' = "run"
           /\ step' = step + 1
           /\ ret' = ret /\ label' = label /\ released' = released
           /\ final_result' = final_result
      ]_vars

\* injection build: a request for another kind is pending, the operation
\* returned -1, the check passed and the request is still pending
C15_Witness ==
    /\ rti /\ pc = "run" /\ last.op # "none" /\ ~last.hit
    /\ last.result = -1
    /\ last.pend # 0 /\ last.pend # last.kind
    /\ g_inject_error_flag = last.pend
    /\ g_error_context = InitContext /\ nvram = <<>>

\* C16 as stated (for checks of a kind other than ERR_SUCCESS): a failing
\* GOTO_CHECK, with or without runtime injection, sets code to its kind, inner_code to 0 and the location to its call site,
\* does not call the gate (logged_to_nvram and the store are unchanged),
\* does not return, and jumps to its cleanup label.
C16_FailingGotoCheck ==
    [][(/\ routine = "rollback"
        /\ Len(trace') = Len(trace) + 1
        /\ ~trace'[Len(trace')]
        /\ last'.kind # ERR_SUCCESS) =>
           /\ g_error_context'.code = last'.kind
           /\ g_error_context'.inner_code = ToU32(0)
           /\ g_error_context'.file = FileRollback
           /\ g_error_context'.line = GotoLine(step)
           /\ g_error_context'.logged_to_nvram
                  = g_error_context.logged_to_nvram
           /\ nvram' = nvram /\ gate'.calls = 0
           /\ ret' = <<>>
           /\ pc' = "cleanup" /\ label' = step
      ]_vars

\* C16: as stated, except that inner_code is 0 in the plain build and the
\* operation's result converted to uint32_t in the injection build (0 when
\* the operation itself failed, its nonzero result when the request fired).
C16_FailingGotoCheckInner ==
    [][(/\ routine = "rollback"
        /\ Len(trace') = Len(trace) + 1
        /\ ~trace'[Len(trace')]) =>
           /\ g_error_context'.code = last'.kind
           /\ g_error_context'.inner_code
                  = (IF rti THEN ToU32(last'.result) ELSE ToU32(0))
           /\ last'.result = 0 => g_error_context'.inner_code = ToU32(0)
           /\ g_error_context'.file = FileRollback
           /\ g_error_context'.line = GotoLine(step)
           /\ g_error_context'.logged_to_nvram
                  = g_error_context.logged_to_nvram
           /\ nvram' = nvram /\ gate'.calls = 0
           /\ ret' = <<>>
           /\ pc' = "cleanup" /\ label' = step
      ]_vars

\* a request fired at step 2 of the rollback routine on an operation that
\* returned 1: inner_code is 1, control is at cleanup label 2
C16_Witness ==
    /\ rti /\ routine = "rollback" /\ pc = "cleanup" /\ label = 2
    /\ Failed /\ last.result = 1 /\ last.pend = last.kind /\ last.pend # 0
    /\ g_error_context.inner_code = [hi |-> 0, lo |-> 1]
    /\ g_error_context.line = GotoLine(2)
    /\ ret = <<>> /\ nvram = <<>>

\* C17 as stated: exit is the single terminal state of the rollback routine
\* and it calls the gate exactly once per invocation, on the all-success path
\* as well as on every failure path, before returning the result.
C17_ExitCallsGateOnce ==
    [][(routine = "rollback" /\ ret = <<>> /\ ret' # <<>>) =>
           /\ pc = "exit" /\ pc' = "done"
           /\ ret' = <<final_result>>
           /\ gate.calls = 0 /\ gate'.calls = 1
      ]_vars

\* C17: exit is the single terminal state of the rollback routine: the
\* routine returns from there only, with final_result; before returning,
\* exit calls the gate exactly once on every failure path and not at all on
\* the all-success path, and no other step of the routine calls the gate.
C17_ExitCallsGateOnFailure ==
    [][/\ (routine = "rollback" /\ pc \in {"run", "cleanup", "exit"}) =>
              (ret = <<>> /\ gate.calls = 0)
       /\ (routine = "rollback" /\ ret = <<>> /\ ret' # <<>>) =>
              /\ pc = "exit" /\ pc' = "done"
              /\ ret' = <<final_result>>
              /\ final_result = (IF Failed THEN ERR_FAILURE ELSE APP_ERR_NONE)
              /\ gate'.calls = (IF Failed THEN 1 ELSE 0)
      ]_vars

\* a failure path of the rollback routine has returned through exit: one
\* gate call, which wrote the record
C17_Witness ==
    /\ routine = "rollback" /\ pc = "done" /\ Failed
    /\ ret = <<ERR_FAILURE>>
    /\ gate.calls = 1 /\ gate.writes = 1
    /\ released # <<>>

\* C18: every invocation of the rollback routine terminates at exit: for all
\* operation outcomes and pending requests, at most NumSteps acquisition
\* steps and at most NumSteps release steps are taken, from cleanup label k
\* control only goes on to a lower cleanup label or to exit (never back to
\* the acquisition steps or to a higher label), and a routine that was
\* called eventually reaches exit and returns.
C18_RollbackTerminates ==
    /\ [](routine = "rollback" =>
             (Len(trace) <= NumSteps /\ Len(released) <= NumSteps))
    /\ [][(routine = "rollback" /\ pc = "cleanup") =>
             /\ pc' \in {"cleanup", "exit"}
             /\ label' < label
             /\ pc' = "cleanup" => label' >= 1
             /\ trace' = trace]_vars
    /\ [][(routine = "rollback" /\ pc' = "done" /\ pc # "done") =>
             pc = "exit"]_vars
    /\ (routine = "rollback" /\ pc = "run") ~> (pc = "done")

\* the longest path: the last step failed and every label was run before exit
C18_Witness ==
    /\ routine = "rollback" /\ pc = "done" /\ Failed
    /\ Len(trace) = NumSteps /\ released = Desc(NumSteps)
    /\ ret = <<ERR_FAILURE>>

C20_InjectedStepAcquiredAndReleased ==
    (rti /\ routine = "rollback" /\ Failed /\ last.result # 0) =>
        /\ last.pend = last.kind
        /\ Len(trace) = step
        /\ AcquiredOk(step)
        /\ \A j \in 1..(step - 1) : AcquiredOk(j)
        /\ IsPrefix(released, Desc(step))
        /\ pc = "cleanup" => label = step - Len(released)
        /\ pc \in {"exit", "done"} =>
               (released = Desc(step) /\ released[1] = step)
        /\ pc \in {"cleanup", "exit", "done"}

\* a request for step 2's kind fired on an operation that returned 1; the
\* routine has released steps 2 and 1 and returned
C20_Witness ==
    /\ rti /\ routine = "rollback" /\ pc = "done" /\ Failed
    /\ last.result = 1 /\ last.pend = last.kind /\ last.pend # 0
    /\ step = 2 /\ released = <<2, 1>>
    /\ ret = <<ERR_FAILURE>>

----------------------------------------------------------------------------
(* C21 *)

\* the call site of the guarded call the routine is at
SiteHere ==
    IF routine = "check" THEN CheckSite(step)
    ELSE IF routine = "imu" THEN ImuSite ELSE GotoSite(step)

\* C21: while no request is ever written into the slot, a guarded check of
\* the injection build with a kind other than ERR_SUCCESS does exactly what
\* the plain definition does on the same operation result: it fails on the
\* same results, leaves the same g_error_context and the same durable
\* writes, transfers control the same way and returns the same result; the
\* slot stays empty.
C21_InjectionBuildAsPlain ==
    [][/\ g_inject_error_flag = 0 /\ g_inject_error_flag' = 0
       /\ (rti /\ Len(trace') = Len(trace) + 1
             /\ last'.kind # ERR_SUCCESS) =>
              LET call == last'.result
                  err_flag == last'.kind
                  plain == RETURN_ERR_AND_CONTEXT(g_error_context, nvram,
                                                  err_flag, ToU32(0), SiteHere)
              IN /\ trace'[Len(trace')] = ~CheckFails(call)
                 /\ IF ~CheckFails(call)
                    THEN /\ g_error_context' = g_error_context
                         /\ nvram' = nvram
                         /\ pc' = "run" /\ step' = step + 1
                         /\ ret' = ret /\ label' = label
                    ELSE IF routine = "rollback"
                    THEN /\ g_error_context'
                                = GotoCapture(g_error_context, err_flag,
                                              ToU32(0), SiteHere)
                         /\ nvram' = nvram
                         /\ pc' = "cleanup" /\ label' = GotoTarget(step)
                         /\ ret' = <<>> /\ step' = step
                    ELSE /\ g_error_context' = plain.ctx
                         /\ nvram' = plain.nv
                         /\ pc' = "done" /\ ret' = <<ERR_FAILURE>>
                         /\ step' = step /\ label' = label
      ]_vars

\* injection build, no request ever written: a check passed on a result of
\* -1 and the next one failed on a result of 0 and was logged with
\* inner_code 0
C21_Witness ==
    /\ rti /\ routine = "check" /\ pc = "done" /\ Failed
    /\ Len(trace) = 2 /\ trace[1]
    /\ last.result = 0 /\ last.pend = 0 /\ last.kind # ERR_SUCCESS
    /\ g_inject_error_flag = 0
    /\ g_error_context.inner_code = ToU32(0)
    /\ g_error_context.line = CheckLine(2)
    /\ nvram = <<NvramRecord(g_error_context)>>

====
